---- MODULE Spec2Model ----
(***************************************************************************)
(* Provider abstraction layer of the Temperature Probability Visualizer:   *)
(* the three getLogprobs adapters (OpenAI, Gemini, Ollama), the Ollama     *)
(* availability cache and the numeric helpers they use.                    *)
(*                                                                         *)
(* One getLogprobs invocation is in flight at a time.  It is split at its  *)
(* await points: the Ollama discovery call (GET /api/tags) and the         *)
(* generation call of each adapter.  What the backend answers at an await  *)
(* point is chosen by the environment.                                     *)
(*                                                                         *)
(* Numbers.  A log-probability is an integer l in -MaxK..0 standing for    *)
(* l*ln(2); a probability is an integer numerator over ProbScale = 2^MaxK, *)
(* so Math.exp is exact on this grid: exp(l*ln 2) = 2^l.                   *)
(***************************************************************************)
EXTENDS Integers, Sequences, FiniteSets, TLC

(***************************************************************************)
(* Bounds of the model                                                     *)
(***************************************************************************)
MaxK == 2           \* log-probabilities range over -MaxK..0 (units of ln 2)
MaxTokens == 2      \* longest list of alternatives in a backend reply
MaxProbes == 2      \* concurrent callers of isAvailable
MaxSubmits == 3     \* handleSubmit invocations in one run
MaxRefreshes == 2   \* calls of the refresh function that useProviderStatus returns
MaxNow == 30000     \* the clock stops advancing here (ms)
TickStep == 15000   \* clock increment (ms)

(***************************************************************************)
(* Program constants                                                       *)
(***************************************************************************)
CACHE_TTL == 30000
DefaultRetryAfterMs == 60000
NegInfinity == -1000          \* Math.log(0)
NoStatus == 0                 \* error.status === undefined
NoRetryAfter == -1            \* retryAfterMs / retry-after header absent

OPENAI_MODELS == <<"gpt-5.2", "gpt-4o">>
GEMINI_MODELS == <<"gemini-2.0-flash-exp">>

Adapters == {"openai", "gemini", "ollama"}
Hosted == {"openai", "gemini"}

\* Model identifiers a caller may ask for; "gpt-4o-mini" is known to no provider.
ModelIds == {"gpt-4o", "gemini-2.0-flash-exp", "llama3:latest", "gpt-4o-mini"}

(***************************************************************************)
(* Numeric helpers (utils/probability.ts)                                  *)
(***************************************************************************)
RECURSIVE Pow2(_)
Pow2(n) == IF n <= 0 THEN 1 ELSE 2 * Pow2(n - 1)

ProbScale == Pow2(MaxK)       \* numerator of probability 1

\* Math.exp on the grid: exp(l * ln 2) = 2^l, as a numerator over ProbScale.
logprobToProb(logprob) == Pow2(MaxK + logprob)

RECURSIVE Log2(_)
Log2(n) == IF n <= 1 THEN 0 ELSE 1 + Log2(n \div 2)

\* Math.log on the grid; Math.log(0) is -Infinity.
MathLog(prob) == IF prob = 0 THEN NegInfinity ELSE Log2(prob) - MaxK

RECURSIVE InsertByProbability(_, _)
InsertByProbability(t, s) ==
  IF s = <<>> THEN <<t>>
  ELSE IF Head(s).probability >= t.probability
       THEN <<Head(s)>> \o InsertByProbability(t, Tail(s))
       ELSE <<t>> \o s

\* [...tokens].sort((a, b) => b.probability - a.probability): stable, descending.
RECURSIVE sortByProbability(_)
sortByProbability(tokens) ==
  IF tokens = <<>> THEN <<>>
  ELSE InsertByProbability(tokens[Len(tokens)],
                           sortByProbability(SubSeq(tokens, 1, Len(tokens) - 1)))

(***************************************************************************)
(* Values exchanged with the backends                                      *)
(***************************************************************************)
TokenTexts == {"a", "b"}
OutputTexts == {"", "a"}          \* generated text; may be empty
Logprobs == (0 - MaxK)..0
Probs == {0} \cup {Pow2(k) : k \in 0..MaxK}

SeqsUpTo(S, n) == UNION {[1..k -> S] : k \in 0..n}

LogprobItems == [token : TokenTexts, logprob : Logprobs]
ProbItems == [token : TokenTexts, prob : Probs]
LogprobLists == SeqsUpTo(LogprobItems, MaxTokens)
ProbLists == SeqsUpTo(ProbItems, MaxTokens)

\* new ProviderError(message, type, provider, retryable, retryAfterMs)
ProviderError(message, type, provider, retryable, retryAfterMs) ==
  [cls |-> "ProviderError", message |-> message, type |-> type,
   provider |-> provider, retryable |-> retryable, retryAfterMs |-> retryAfterMs]

\* A value thrown by a backend call, as the catch blocks inspect it:
\*   cls        the class the instanceof tests see
\*   name       error.name
\*   status     error.status (NoStatus when undefined)
\*   retryAfter error.headers['retry-after'] in seconds (NoRetryAfter when absent)
\*   msg        the substrings of error.message the handlers search for
RawError(cls, name, status, retryAfter, msg) ==
  [cls |-> cls, name |-> name, status |-> status, retryAfter |-> retryAfter, msg |-> msg]

HttpStatuses == {400, 401, 404, 429, 500, 503}
RetryAfterHints == {NoRetryAfter, 2}

ErrorClasses == {"APIError", "TypeError", "Error"}    \* instanceof Error holds
IsError(e) == e.cls \in ErrorClasses

\* What the backend did at the generation call (recorded for the properties).
\* noAlternatives and output are recorded for the OK replies of Gemini and
\* Ollama: whether the reply carried no alternative log-probability in any
\* structure the adapter reads, and the generated text.
Reply(cause, status, hint) ==
  [cause |-> cause, status |-> status, hint |-> hint,
   noAlternatives |-> FALSE, output |-> ""]
OkReply(noAlternatives, output) ==
  [cause |-> "ok", status |-> 200, hint |-> NoRetryAfter,
   noAlternatives |-> noAlternatives, output |-> output]
NoReply == Reply("none", NoStatus, NoRetryAfter)

\* Outcome of a getLogprobs invocation.
NoResult == [kind |-> "none"]
Returned(tokens, model, latencyMs, selectedToken) ==
  [kind |-> "response", tokens |-> tokens, model |-> model,
   latencyMs |-> latencyMs, selectedToken |-> selectedToken]
Thrown(error) == [kind |-> "throw", error |-> error]

\* Failures inside a try block that are not backend replies: a body that does
\* not parse (SyntaxError), a missing field (TypeError), a thrown non-Error.
InternalErrors ==
  {RawError(c, n, NoStatus, NoRetryAfter, {}) :
     c \in {"TypeError", "Error", "NonError"}, n \in {"Error", "AbortError"}}

\* fetch() with an aborted signal rejects with a DOMException named AbortError.
FetchAbortError == RawError("Error", "AbortError", NoStatus, NoRetryAfter, {})

(***************************************************************************)
(* OpenAI adapter (providers/openai/provider.ts)                           *)
(***************************************************************************)
\* Bodies of a successful chat.completions reply.  hasTopLogprobs is false
\* when choice?.logprobs?.content?.[0]?.top_logprobs is undefined.
OpenAIBodies ==
  {[hasTopLogprobs |-> TRUE, top_logprobs |-> l, content |-> c] :
     l \in LogprobLists, c \in OutputTexts}
  \cup
  {[hasTopLogprobs |-> FALSE, top_logprobs |-> <<>>, content |-> c] : c \in OutputTexts}

\* How client.chat.completions.create can fail.  The SDK reports an HTTP
\* error status as an APIError carrying the status and headers.  The class it
\* uses for transport failures and for aborted requests is outside the
\* repository: both an APIError without status and a plain error are admitted.
\* Once the signal is aborted the pending request rejects with the abort.
OpenAIThrows(aborted) ==
  IF aborted
  THEN {[reply |-> Reply("abort", NoStatus, NoRetryAfter),
         error |-> RawError(c[1], c[2], NoStatus, NoRetryAfter, {})] :
          c \in {<<"APIError", "Error">>, <<"Error", "AbortError">>}}
  ELSE {[reply |-> Reply("http", s, h),
         error |-> RawError("APIError", "Error", s, h, {})] :
          s \in HttpStatuses, h \in RetryAfterHints}
       \cup
       {[reply |-> Reply("network", NoStatus, NoRetryAfter),
         error |-> RawError(c, "Error", NoStatus, NoRetryAfter, {})] :
          c \in {"APIError", "TypeError"}}
       \cup
       {[reply |-> Reply("internal", NoStatus, NoRetryAfter), error |-> e] :
          e \in InternalErrors}

\* topLogprobs[0].token = selectedToken, when the list is not empty.
SpliceSelected(topLogprobs, selectedToken) ==
  IF Len(topLogprobs) # 0
  THEN [topLogprobs EXCEPT ![1].token = selectedToken]
  ELSE topLogprobs

OpenAIParse_NoCheck(body, model, latencyMs) ==
  Returned(sortByProbability(
             [i \in 1..Len(body.top_logprobs) |->
                [token |-> body.top_logprobs[i].token,
                 logprob |-> body.top_logprobs[i].logprob,
                 probability |-> logprobToProb(body.top_logprobs[i].logprob)]]),
           model, latencyMs, body.content)

\* The try block after the reply has arrived (lines 91-126).
OpenAIParse(body, model, latencyMs) ==
  IF ~body.hasTopLogprobs
  THEN Thrown(ProviderError("No logprobs in response", "INVALID_RESPONSE", "openai",
                            FALSE, NoRetryAfter))
  ELSE LET selectedToken == body.content
           topLogprobs == SpliceSelected(body.top_logprobs, selectedToken)
           rawTokens == [i \in 1..Len(topLogprobs) |->
                           [token |-> topLogprobs[i].token,
                            logprob |-> topLogprobs[i].logprob,
                            probability |-> logprobToProb(topLogprobs[i].logprob)]]
       IN Returned(sortByProbability(rawTokens), model, latencyMs, selectedToken)

\* A variant of the catch block without its first line: a ProviderError thrown
\* inside the try block is classified like any other error.
OpenAICatch_Reclassify(error) ==
  IF IsError(error) /\ error.name = "AbortError" THEN error
  ELSE ProviderError("Network error", "NETWORK_ERROR", "openai", TRUE, NoRetryAfter)

\* The catch block (lines 127-165): the value the call finally throws.
OpenAICatch(error) ==
  IF error.cls = "ProviderError" THEN error
  ELSE IF error.cls = "APIError"
  THEN IF error.status = 429
       THEN ProviderError("Rate limited by OpenAI", "RATE_LIMITED", "openai", TRUE,
                          IF error.retryAfter # NoRetryAfter
                          THEN error.retryAfter * 1000
                          ELSE DefaultRetryAfterMs)
       ELSE IF error.status = 401
       THEN ProviderError("Invalid OpenAI API key", "API_KEY_MISSING", "openai",
                          FALSE, NoRetryAfter)
       ELSE ProviderError("OpenAI API error", "UNKNOWN", "openai",
                          error.status >= 500, NoRetryAfter)
  ELSE IF IsError(error) /\ error.name = "AbortError" THEN error
  ELSE ProviderError("Network error", "NETWORK_ERROR", "openai", TRUE, NoRetryAfter)

(***************************************************************************)
(* Gemini adapter (providers/gemini/provider.ts)                           *)
(***************************************************************************)
GeminiItems == [token : TokenTexts, logProbability : Logprobs]
GeminiLists == SeqsUpTo(GeminiItems, MaxTokens)

\* Bodies of a successful generateContent reply: topCandidates[0].candidates
\* and chosenCandidates, each absent (has* false) or a list; text is
\* response.text().
GeminiBodies ==
  {[hasTop |-> TRUE, top |-> t, hasChosen |-> hc, chosen |-> <<>>, text |-> x] :
     t \in GeminiLists, hc \in BOOLEAN, x \in OutputTexts}
  \cup
  {[hasTop |-> ht, top |-> <<>>, hasChosen |-> TRUE, chosen |-> c, text |-> x] :
     ht \in BOOLEAN, c \in GeminiLists, x \in OutputTexts}
  \cup
  {[hasTop |-> TRUE, top |-> t, hasChosen |-> TRUE, chosen |-> <<c>>, text |-> x] :
     t \in GeminiLists, c \in GeminiItems, x \in OutputTexts}
  \cup
  {[hasTop |-> FALSE, top |-> <<>>, hasChosen |-> FALSE, chosen |-> <<>>, text |-> x] :
     x \in OutputTexts}

\* The substrings of error.message the SDK produces for an HTTP status.
GeminiMessage(status) ==
  IF status = 429 THEN {{"429"}, {"429", "quota"}}
  ELSE IF status = 401 THEN {{"API key"}}
  ELSE {{}}

\* How generateContent can fail.  The request carries no signal, so the
\* outcomes do not depend on it.  The SDK reports every failure as an Error
\* whose message holds the status text; the retry hint is not exposed.
GeminiThrows ==
  UNION {{[reply |-> Reply("http", s, h),
           error |-> RawError("Error", "Error", NoStatus, NoRetryAfter, m)] :
            m \in GeminiMessage(s), h \in RetryAfterHints} : s \in HttpStatuses}
  \cup
  {[reply |-> Reply("network", NoStatus, NoRetryAfter),
    error |-> RawError(c, "Error", NoStatus, NoRetryAfter, {"fetch"})] :
     c \in {"Error", "TypeError"}}
  \cup
  {[reply |-> Reply("internal", NoStatus, NoRetryAfter), error |-> e] :
     e \in InternalErrors}

\* The try block after the reply has arrived (lines 457-493).
GeminiParse(body, model, latencyMs) ==
  LET selectedToken ==
        IF body.hasChosen /\ Len(body.chosen) > 0 /\ body.chosen[1].token # ""
        THEN body.chosen[1].token
        ELSE body.text
      \* a ?? b: b only when a is undefined, not when a is empty
      hasCandidates == body.hasTop \/ body.hasChosen
      logprobCandidates == IF body.hasTop THEN body.top ELSE body.chosen
  IN IF ~hasCandidates \/ Len(logprobCandidates) = 0
     THEN Returned(<<[token |-> IF body.text # "" THEN body.text ELSE "(empty)",
                      logprob |-> 0, probability |-> ProbScale]>>,
                   model, latencyMs, body.text)
     ELSE LET rawTokens == [i \in 1..Len(logprobCandidates) |->
                              [token |-> logprobCandidates[i].token,
                               logprob |-> logprobCandidates[i].logProbability,
                               probability |->
                                 logprobToProb(logprobCandidates[i].logProbability)]]
          IN Returned(sortByProbability(rawTokens), model, latencyMs, selectedToken)

\* The catch block (lines 494-526).
GeminiCatch(error) ==
  IF error.cls = "ProviderError" THEN error
  ELSE IF IsError(error) /\ "API key" \in error.msg
  THEN ProviderError("Invalid Google AI API key", "API_KEY_MISSING", "gemini",
                     FALSE, NoRetryAfter)
  ELSE IF IsError(error) /\ ("429" \in error.msg \/ "quota" \in error.msg)
  THEN ProviderError("Rate limited by Google AI", "RATE_LIMITED", "gemini",
                     TRUE, DefaultRetryAfterMs)
  ELSE IF IsError(error) /\ error.name = "AbortError" THEN error
  ELSE ProviderError("Gemini API error", "UNKNOWN", "gemini", TRUE, NoRetryAfter)

(***************************************************************************)
(* Ollama adapter (providers/ollama/provider.ts)                           *)
(***************************************************************************)
Range(f) == {f[i] : i \in DOMAIN f}

\* Model lists the local service may report (convertToModelConfig keeps
\* model.name as the id; the display name is not read by any operation here).
OllamaCatalogs == {<<>>, <<"llama3:latest">>, <<"llama3:latest", "phi3:mini">>}

\* What GET /api/tags can do: an OK reply with a model list, a non-OK reply,
\* or a rejection (service down, 5 s timeout, body without a models array).
TagsOutcomes ==
  {[kind |-> "ok", models |-> ms] : ms \in OllamaCatalogs}
  \cup {[kind |-> k, models |-> <<>>] : k \in {"notOk", "throws"}}

fetchModels_KeepsDefault(outcome) ==
  IF outcome.kind = "ok" THEN outcome.models ELSE <<"llama3:latest">>

\* fetchModels never throws: every failure becomes the empty list.
fetchModels(outcome) ==
  IF outcome.kind = "ok" THEN outcome.models ELSE <<>>

HasModels_OrNone(models) == Len(models) >= 0

\* const available = models.length > 0 (line 168)
HasModels(models) == Len(models) > 0

\* The model list of the last discovery call that the service answered with
\* an OK reply, after outcome o of one more call.
Discovered(o, last) == IF o.kind = "ok" THEN o.models ELSE last

NoCache == [present |-> FALSE, available |-> FALSE, models |-> <<>>, timestamp |-> 0]
CacheEntry(available, models, timestamp) ==
  [present |-> TRUE, available |-> available, models |-> models, timestamp |-> timestamp]

CacheIsFresh_NoTTL(c, t) == c.present

\* this.cache && Date.now() - this.cache.timestamp < this.CACHE_TTL
CacheIsFresh(c, t) == c.present /\ t - c.timestamp < CACHE_TTL

\* Bodies of an OK /api/generate reply.  hasProbs: completion_probabilities
\* [0].probs is present; hasLogprobs: logprobs is a non-empty array, whose
\* first entry carries top_logprobs.
OllamaBodies ==
  {[hasProbs |-> TRUE, probs |-> l, hasLogprobs |-> FALSE, top_logprobs |-> <<>>,
    response |-> r] : l \in ProbLists, r \in OutputTexts}
  \cup
  {[hasProbs |-> FALSE, probs |-> <<>>, hasLogprobs |-> TRUE, top_logprobs |-> l,
    response |-> r] : l \in LogprobLists, r \in OutputTexts}
  \cup
  {[hasProbs |-> TRUE, probs |-> l, hasLogprobs |-> TRUE, top_logprobs |-> <<i>>,
    response |-> r] : l \in ProbLists, i \in LogprobItems, r \in OutputTexts}
  \cup
  {[hasProbs |-> FALSE, probs |-> <<>>, hasLogprobs |-> FALSE, top_logprobs |-> <<>>,
    response |-> r] : r \in OutputTexts}

\* How the generation fetch can reject.  A transport failure is a TypeError
\* whose message depends on the runtime ("Failed to fetch", "Load failed").
OllamaThrows(aborted) ==
  IF aborted
  THEN {[reply |-> Reply("abort", NoStatus, NoRetryAfter), error |-> FetchAbortError]}
  ELSE {[reply |-> Reply("network", NoStatus, NoRetryAfter),
         error |-> RawError("TypeError", "TypeError", NoStatus, NoRetryAfter, m)] :
          m \in {{"fetch"}, {}}}
       \cup
       {[reply |-> Reply("internal", NoStatus, NoRetryAfter), error |-> e] :
          e \in InternalErrors}

OllamaNotOk_AnyClientError(status) ==
  IF status < 500
  THEN ProviderError("Model not found. Run 'ollama pull'", "MODEL_NOT_FOUND", "ollama",
                     FALSE, NoRetryAfter)
  ELSE ProviderError("Ollama API error", "UNKNOWN", "ollama", TRUE, NoRetryAfter)

\* !response.ok (lines 241-257)
OllamaNotOk(status) ==
  IF status = 404
  THEN ProviderError("Model not found. Run 'ollama pull'", "MODEL_NOT_FOUND", "ollama",
                     FALSE, NoRetryAfter)
  ELSE ProviderError("Ollama API error", "UNKNOWN", "ollama", status >= 500, NoRetryAfter)

\* The try block after an OK reply has arrived (lines 259-285).
OllamaParse(body, model, latencyMs) ==
  LET selectedToken == body.response
      tokens ==
        IF body.hasProbs
        THEN [i \in 1..Len(body.probs) |->
                [token |-> body.probs[i].token,
                 logprob |-> MathLog(body.probs[i].prob),
                 probability |-> body.probs[i].prob]]
        ELSE IF body.hasLogprobs
        THEN [i \in 1..Len(body.top_logprobs) |->
                [token |-> body.top_logprobs[i].token,
                 logprob |-> body.top_logprobs[i].logprob,
                 probability |-> logprobToProb(body.top_logprobs[i].logprob)]]
        ELSE <<[token |-> IF body.response # "" THEN body.response ELSE "(empty)",
                logprob |-> 0, probability |-> ProbScale]>>
  IN Returned(sortByProbability(tokens), model, latencyMs, selectedToken)

\* The catch block (lines 286-305).
OllamaCatch(error) ==
  IF error.cls = "ProviderError" THEN error
  ELSE IF IsError(error) /\ error.name = "AbortError" THEN error
  ELSE IF error.cls = "TypeError" /\ "fetch" \in error.msg
  THEN ProviderError("Cannot connect to Ollama", "NETWORK_ERROR", "ollama",
                     TRUE, NoRetryAfter)
  ELSE ProviderError("Ollama error", "UNKNOWN", "ollama", TRUE, NoRetryAfter)

(***************************************************************************)
(* State                                                                   *)
(***************************************************************************)
VARIABLES
  apiKey,      \* apiKey[p]: process.env credential of hosted provider p is set
  client,      \* client[p]: hosted provider p holds a client handle
  _models,     \* OllamaProvider._models
  cache,       \* OllamaProvider.cache
  now,         \* Date.now() / performance.now()
  call,        \* the getLogprobs invocation in flight, and where it stands
  netCalls,    \* backend calls issued by the current invocation, per endpoint
  lastReply,   \* what the backend did at the generation call
  result,      \* how the invocation ended
  lastGood,    \* the model list of the last discovery the service answered
  probes,      \* probes[i]: the i-th concurrent caller of isAvailable
  refresh,     \* the refreshModels invocation, and where it stands
  registry,    \* the ProviderRegistry singleton
  lastAccess,  \* the last synchronous registry access and what it returned
  statusCall,  \* the getWithStatus / getAvailable invocation in flight
  app,         \* the state of the App component
  hook,        \* the state of useProviderStatus
  abortControllerRef,  \* index in requests of abortControllerRef.current, 0: null
  requests,    \* requests[k]: the controller and the call of the k-th handleSubmit
  parse,       \* a backend reply and what the adapter's try/catch makes of it
  refreshes    \* refreshes[k]: the k-th call of the refresh that the hook returns

registryVars == <<registry, lastAccess, statusCall>>
consumerVars == <<app, hook, abortControllerRef, requests, refreshes>>

vars == <<apiKey, client, _models, cache, now, call, netCalls, lastReply, result,
          lastGood, probes, refresh, registryVars, consumerVars, parse>>

\* The state that getLogprobs never touches.
offCall == <<probes, refresh, registryVars, consumerVars, parse>>

NoRaised == [cls |-> "none"]

\* A reply handled on its own: the body of an OK reply to adapter, and the
\* outcome of the try block and the catch block on it.
NoParse == [adapter |-> "none", body |-> [kind |-> "none"], outcome |-> NoResult]

Idle == [pc |-> "idle", adapter |-> "none", model |-> "none", aborted |-> FALSE,
         abortedAtStart |-> FALSE, known |-> FALSE, startTime |-> 0,
         raised |-> NoRaised, discovery |-> "none", available |-> FALSE]

\* A caller of isAvailable: provider is the adapter asked, pc where the call
\* stands ("tags": the discovery call is pending), and, once it is done,
\* fromCache: answered from the cache without a discovery call; value: what
\* it returned; raised: it threw instead of returning.
Probe(pc, provider, fromCache, value, raised) ==
  [pc |-> pc, provider |-> provider, fromCache |-> fromCache, value |-> value,
   raised |-> raised]
NoProbe == Probe("idle", "none", FALSE, FALSE, FALSE)

\* refreshModels: pc is "idle", "tags" (the discovery call is pending) or
\* "done"; returned is the list it returned.
NoRefresh == [pc |-> "idle", returned |-> <<>>]

NoCalls == [generate |-> 0, tags |-> 0]

(***************************************************************************)
(* ProviderRegistry: the values                                            *)
(***************************************************************************)
BuiltinIds == {"openai", "gemini", "ollama"}

\* A provider instance: n is the number of the constructor call inside the
\* registry that made it, 0 for an instance made by the caller of register.
Instance(id, n) == [id |-> id, n |-> n]
Undefined == Instance("undefined", -1)

\* The instances callers hand to register: one that reuses a built-in id and
\* one with an id of its own.
CustomProviders == {Instance("openai", 0), Instance("mock", 0)}
LookupIds == BuiltinIds \cup {"mock"}

\* Map.prototype.set on a Map kept as the sequence of its values in
\* insertion order: an existing key keeps its position.
MapSet(m, inst) ==
  IF \E i \in 1..Len(m) : m[i].id = inst.id
  THEN [i \in 1..Len(m) |-> IF m[i].id = inst.id THEN inst ELSE m[i]]
  ELSE Append(m, inst)

\* Map.prototype.get
MapGet(m, id) ==
  IF \E i \in 1..Len(m) : m[i].id = id
  THEN m[CHOOSE i \in 1..Len(m) : m[i].id = id]
  ELSE Undefined

\* providers and initialized are the fields of the class; constructed counts
\* the provider constructor calls made by the registry, registered records
\* that register was called from outside, and custom the ids it was called
\* with.
NewRegistry ==
  [providers |-> <<>>, initialized |-> FALSE, constructed |-> 0, registered |-> FALSE,
   custom |-> {}]

\* register(provider)
register(r, inst) == [r EXCEPT !.providers = MapSet(@, inst)]

ensureInitialized_NoFlag(r) ==
  LET n == r.constructed
      r1 == register(r, Instance("openai", n + 1))
      r2 == register(r1, Instance("gemini", n + 2))
      r3 == register(r2, Instance("ollama", n + 3))
  IN [r3 EXCEPT !.initialized = TRUE, !.constructed = n + 3]

\* ensureInitialized()
ensureInitialized(r) ==
  IF r.initialized THEN r
  ELSE LET n == r.constructed
           r1 == register(r, Instance("openai", n + 1))
           r2 == register(r1, Instance("gemini", n + 2))
           r3 == register(r2, Instance("ollama", n + 3))
       IN [r3 EXCEPT !.initialized = TRUE, !.constructed = n + 3]

\* A synchronous access and its outcome: value is the list of instances it
\* returned (one for get, none for undefined), error what it threw.
Access(op, id, value, error) == [op |-> op, id |-> id, value |-> value, error |-> error]
NoAccess == Access("none", "none", <<>>, NoRaised)

\* new Error(`Provider '${id}' not found`)
NotFound == RawError("Error", "Error", NoStatus, NoRetryAfter, {"not found"})

\* A getWithStatus / getAvailable invocation: snapshot is the array getAll
\* returned, checks[i] how the isAvailable call of snapshot[i] stands
\* ("pending", "true", "false", or what it threw: "Error", "other"), cached
\* what the cache of the built-in Ollama instance answered when its call was
\* made ("none": it did not answer), entries the array getWithStatus
\* resolved with, available the one getAvailable did.
NoStatusCall ==
  [pc |-> "idle", op |-> "none", snapshot |-> <<>>, checks |-> <<>>,
   cached |-> "none", entries |-> <<>>, available |-> <<>>]

\* The instance is the OllamaProvider the registry constructed.
IsOllama(inst) == inst.id = "ollama" /\ inst.n > 0

BoolName(b) == IF b THEN "true" ELSE "false"

\* One element of the array getWithStatus resolves with (lines 82-93).
StatusEntry(inst, check) ==
  [provider |-> inst,
   available |-> (check = "true"),
   error |-> IF check = "Error" THEN "message"
             ELSE IF check = "other" THEN "Unknown error"
             ELSE "none"]

(***************************************************************************)
(* App and useProviderStatus: the values                                   *)
(***************************************************************************)
\* useState initial values of App (lines 82-93); promptOk stands for
\* prompt.length >= MIN_PROMPT_LENGTH, error NoRaised for null.
NewApp ==
  [mounted |-> TRUE, promptOk |-> TRUE, selectedProvider |-> "openai",
   selectedModel |-> "gpt-4o-mini", status |-> "idle", error |-> NoRaised]

\* useState initial values of useProviderStatus; pc is "mounting" until the
\* initial effect has called refresh, "awaiting" while refresh awaits
\* getProvidersWithStatus, then "done".
NewHook == [pc |-> "mounting", providers |-> <<>>, loading |-> TRUE]

\* One call of the refresh function that useProviderStatus returns (part_000,
\* lines 172-183): pc is "idle", "awaiting" while getProvidersWithStatus is
\* pending, "resolved" when it has resolved with status, then "done"; cached
\* is what Ollama's cache answered when the call began ("none": a discovery
\* call was issued).
RefreshCall(pc, cached, status) == [pc |-> pc, cached |-> cached, status |-> status]
NoRefreshCall == RefreshCall("idle", "none", <<>>)

\* One handleSubmit: the AbortController it created (aborted: its signal) and
\* the getLogprobs call made with it (pc "pending", "settled", or
\* "notIssued" when getProvider threw).
Request(provider, model, pc) ==
  [provider |-> provider, model |-> model, aborted |-> FALSE, pc |-> pc]

\* The object the catch block of handleSubmit builds for an error that has
\* no type field (lines 166-172).
WrappedError(message, provider) ==
  [ProviderError(message, "UNKNOWN", provider, TRUE, NoRetryAfter) EXCEPT !.cls = "Object"]

NotFoundMessage == "Provider not found"

\* How a getLogprobs call can end, as handleSubmit tells the cases apart: a
\* response, an Error named AbortError, or a ProviderError.
CallOutcomes(provider) ==
  {[kind |-> "response"], Thrown(FetchAbortError)}
  \cup {Thrown(ProviderError("failed", t, provider, t = "RATE_LIMITED", NoRetryAfter)) :
          t \in {"RATE_LIMITED", "MODEL_NOT_FOUND"}}

\* The credentials are compiled into the bundle (DefinePlugin), so they are
\* fixed for the life of the process; providers are constructed without
\* reading them.
Init ==
  /\ apiKey \in [Hosted -> BOOLEAN]
  /\ client = [p \in Hosted |-> FALSE]
  /\ _models = <<>>
  /\ cache = NoCache
  /\ now = 0
  /\ call = Idle
  /\ netCalls = NoCalls
  /\ lastReply = NoReply
  /\ result = NoResult
  /\ lastGood = <<>>
  /\ probes = [i \in 1..MaxProbes |-> NoProbe]
  /\ refresh = NoRefresh
  /\ registry = NewRegistry
  /\ lastAccess = NoAccess
  /\ statusCall = NoStatusCall
  /\ app = NewApp
  /\ hook = NewHook
  /\ abortControllerRef = 0
  /\ requests = <<>>
  /\ parse = NoParse
  /\ refreshes = [k \in 1..MaxRefreshes |-> NoRefreshCall]

\* A new invocation: request {model, signal} to adapter a.  known, raised and
\* abortedAtStart are records for the properties: whether the model was in the
\* provider's list when the call began, the ProviderError constructed inside
\* the call (if any), and the state of the signal when the call began.
\* discovery and available record, for Ollama, how isAvailable answered inside
\* the call: from the cache ("cached") or by a discovery call that the
\* service answered ("ok", "notOk") or not ("throws"), and with what value.
NewCall(a, model, aborted, known) ==
  [pc |-> "start", adapter |-> a, model |-> model, aborted |-> aborted,
   abortedAtStart |-> aborted, known |-> known, startTime |-> now,
   raised |-> NoRaised, discovery |-> "none", available |-> FALSE]

CanStart == call.pc \in {"idle", "done"}

\* Math.round(performance.now() - startTime)
Latency(c) == now - c.startTime

\* Time passes.
Tick ==
  /\ now < MaxNow
  /\ now' = now + TickStep
  /\ UNCHANGED <<apiKey, client, _models, cache, call, netCalls, lastReply, result, lastGood>>
  /\ UNCHANGED offCall

\* The consumer aborts the signal of the pending invocation.
Abort ==
  /\ call.pc \in {"tags", "generate"}
  /\ ~call.aborted
  /\ call' = [call EXCEPT !.aborted = TRUE]
  /\ UNCHANGED <<apiKey, client, _models, cache, now, netCalls, lastReply, result, lastGood>>
  /\ UNCHANGED offCall

\* The invocation ends by throwing: error is what the caller receives, raised
\* the ProviderError constructed inside the call, if one was.
Throws(c, error, raised) ==
  /\ call' = [c EXCEPT !.pc = "done", !.raised = raised]
  /\ result' = Thrown(error)

\* The invocation ends by returning a response.
Returns(c, response) ==
  /\ call' = [c EXCEPT !.pc = "done"]
  /\ result' = response

\* The error a parsed reply threw inside the try block, if it threw.
ErrorOf(parsed) == IF parsed.kind = "throw" THEN parsed.error ELSE NoRaised

\* A parsed reply ends the invocation: a response is returned; an error
\* thrown inside the try block leaves as caught, what the catch block made
\* of it.
Settle(c, parsed, caught) ==
  IF parsed.kind = "throw"
  THEN Throws(c, caught, parsed.error)
  ELSE Returns(c, parsed)

(***************************************************************************)
(* OpenAIProvider.getLogprobs                                              *)
(***************************************************************************)
\* A variant of getClient that creates the client without testing the key.
OpenAIGetClientThrows_NoKeyTest == FALSE

\* getClient (lines 29-46) throws API_KEY_MISSING: no client is cached and
\* the credential is unset.
OpenAIGetClientThrows == ~client["openai"] /\ ~apiKey["openai"]

\* Lines 57-87: model check, getClient, and the create() call is issued.
OpenAIGetLogprobs(model, aborted) ==
  /\ CanStart
  /\ LET c == NewCall("openai", model, aborted, model \in Range(OPENAI_MODELS))
         notFound == ProviderError("Model not found in OpenAI provider",
                                   "MODEL_NOT_FOUND", "openai", FALSE, NoRetryAfter)
         keyMissing == ProviderError("OpenAI API key not configured",
                                     "API_KEY_MISSING", "openai", FALSE, NoRetryAfter)
     IN IF model \notin Range(OPENAI_MODELS)
        THEN /\ Throws(c, notFound, notFound)
             /\ netCalls' = NoCalls
             /\ UNCHANGED client
        ELSE IF OpenAIGetClientThrows
        THEN /\ Throws(c, OpenAICatch(keyMissing), keyMissing)
             /\ netCalls' = NoCalls
             /\ UNCHANGED client
        ELSE /\ client' = [client EXCEPT !["openai"] = TRUE]
             /\ call' = [c EXCEPT !.pc = "generate"]
             /\ netCalls' = [NoCalls EXCEPT !.generate = 1]
             /\ result' = NoResult
  /\ lastReply' = NoReply
  /\ UNCHANGED <<apiKey, _models, cache, now, lastGood>>
  /\ UNCHANGED offCall

\* Lines 89-165: the create() call settles.
OpenAIGenerateSettles ==
  /\ call.pc = "generate" /\ call.adapter = "openai"
  /\ \/ /\ ~call.aborted
        /\ \E b \in OpenAIBodies :
             LET parsed == OpenAIParse(b, call.model, Latency(call))
             IN Settle(call, parsed, OpenAICatch(ErrorOf(parsed)))
        /\ lastReply' = Reply("ok", 200, NoRetryAfter)
     \/ \E t \in OpenAIThrows(call.aborted) :
          /\ Throws(call, OpenAICatch(t.error), NoRaised)
          /\ lastReply' = t.reply
  /\ UNCHANGED <<apiKey, client, _models, cache, now, netCalls, lastGood>>
  /\ UNCHANGED offCall

(***************************************************************************)
(* GeminiProvider.getLogprobs                                              *)
(***************************************************************************)
\* getClient (lines 396-410) throws API_KEY_MISSING: no client is cached and
\* the credential is unset.
GeminiGetClientThrows == ~client["gemini"] /\ ~apiKey["gemini"]

\* Lines 421-455: model check, getClient, and generateContent is issued.
\* The request's signal is not read.
GeminiGetLogprobs(model, aborted) ==
  /\ CanStart
  /\ LET c == NewCall("gemini", model, aborted, model \in Range(GEMINI_MODELS))
         notFound == ProviderError("Model not found in Gemini provider",
                                   "MODEL_NOT_FOUND", "gemini", FALSE, NoRetryAfter)
         keyMissing == ProviderError("Google AI API key not configured",
                                     "API_KEY_MISSING", "gemini", FALSE, NoRetryAfter)
     IN IF model \notin Range(GEMINI_MODELS)
        THEN /\ Throws(c, notFound, notFound)
             /\ netCalls' = NoCalls
             /\ UNCHANGED client
        ELSE IF GeminiGetClientThrows
        THEN /\ Throws(c, GeminiCatch(keyMissing), keyMissing)
             /\ netCalls' = NoCalls
             /\ UNCHANGED client
        ELSE /\ client' = [client EXCEPT !["gemini"] = TRUE]
             /\ call' = [c EXCEPT !.pc = "generate"]
             /\ netCalls' = [NoCalls EXCEPT !.generate = 1]
             /\ result' = NoResult
  /\ lastReply' = NoReply
  /\ UNCHANGED <<apiKey, _models, cache, now, lastGood>>
  /\ UNCHANGED offCall

\* Lines 457-526: generateContent settles, whatever the state of the signal.
GeminiGenerateSettles ==
  /\ call.pc = "generate" /\ call.adapter = "gemini"
  /\ \/ /\ \E b \in GeminiBodies :
             LET parsed == GeminiParse(b, call.model, Latency(call))
             IN /\ Settle(call, parsed, GeminiCatch(ErrorOf(parsed)))
                /\ lastReply' = OkReply(Len(b.top) + Len(b.chosen) = 0, b.text)
     \/ \E t \in GeminiThrows :
          /\ Throws(call, GeminiCatch(t.error), NoRaised)
          /\ lastReply' = t.reply
  /\ UNCHANGED <<apiKey, client, _models, cache, now, netCalls, lastGood>>
  /\ UNCHANGED offCall

(***************************************************************************)
(* OllamaProvider.getLogprobs                                              *)
(***************************************************************************)
\* Lines 200-239, once isAvailable has answered: the availability and model
\* checks, and the generation fetch is issued.  n counts the calls so far.
OllamaAfterAvailable(c0, n, available, models) ==
  LET c == [c0 EXCEPT !.available = available]
      unavailable == ProviderError("Ollama is not running", "SERVICE_UNAVAILABLE",
                                   "ollama", TRUE, NoRetryAfter)
      notFound == ProviderError("Model not found. Available models: ...",
                                "MODEL_NOT_FOUND", "ollama", FALSE, NoRetryAfter)
  IN IF ~available
     THEN Throws(c, unavailable, unavailable) /\ netCalls' = n
     ELSE IF c.model \notin Range(models)
     THEN Throws(c, notFound, notFound) /\ netCalls' = n
     ELSE /\ call' = [c EXCEPT !.pc = "generate"]
          /\ netCalls' = [n EXCEPT !.generate = @ + 1]
          /\ result' = NoResult

\* Lines 195-199 and isAvailable (161-167): a fresh cache answers at once,
\* otherwise the discovery call is issued.
OllamaGetLogprobs(model, aborted) ==
  /\ CanStart
  /\ LET c == NewCall("ollama", model, aborted, model \in Range(_models))
     IN IF CacheIsFresh(cache, now)
        THEN OllamaAfterAvailable([c EXCEPT !.discovery = "cached"], NoCalls,
                                  cache.available, _models)
        ELSE /\ call' = [c EXCEPT !.pc = "tags"]
             /\ netCalls' = [NoCalls EXCEPT !.tags = 1]
             /\ result' = NoResult
  /\ lastReply' = NoReply
  /\ UNCHANGED <<apiKey, client, _models, cache, now, lastGood>>
  /\ UNCHANGED offCall

\* isAvailable (167-171): the discovery call settles, the cache is rewritten,
\* and getLogprobs goes on.  fetchModels catches every failure itself, so the
\* catch branch of isAvailable (172-175) is never entered.
OllamaTagsSettles ==
  /\ call.pc = "tags" /\ call.adapter = "ollama"
  /\ \E o \in TagsOutcomes :
       LET models == fetchModels(o)
           available == HasModels(models)
       IN /\ _models' = models
          /\ cache' = CacheEntry(available, models, now)
          /\ lastGood' = Discovered(o, lastGood)
          /\ OllamaAfterAvailable([call EXCEPT !.discovery = o.kind], netCalls,
                                  available, models)
  /\ UNCHANGED <<apiKey, client, now, lastReply>>
  /\ UNCHANGED offCall

\* Lines 239-305: the generation fetch settles.
OllamaGenerateSettles ==
  /\ call.pc = "generate" /\ call.adapter = "ollama"
  /\ \/ /\ ~call.aborted
        /\ \E b \in OllamaBodies :
             LET parsed == OllamaParse(b, call.model, Latency(call))
             IN /\ Settle(call, parsed, OllamaCatch(ErrorOf(parsed)))
                /\ lastReply' = OkReply(Len(b.probs) + Len(b.top_logprobs) = 0,
                                        b.response)
     \/ /\ ~call.aborted
        /\ \E s \in HttpStatuses, h \in RetryAfterHints :
             /\ Throws(call, OllamaCatch(OllamaNotOk(s)), OllamaNotOk(s))
             /\ lastReply' = Reply("http", s, h)
     \/ \E t \in OllamaThrows(call.aborted) :
          /\ Throws(call, OllamaCatch(t.error), NoRaised)
          /\ lastReply' = t.reply
  /\ UNCHANGED <<apiKey, client, _models, cache, now, netCalls, lastGood>>
  /\ UNCHANGED offCall

Next ==
  \/ Tick
  \/ Abort
  \/ \E m \in ModelIds, a \in BOOLEAN : OpenAIGetLogprobs(m, a)
  \/ OpenAIGenerateSettles
  \/ \E m \in ModelIds, a \in BOOLEAN : GeminiGetLogprobs(m, a)
  \/ GeminiGenerateSettles
  \/ \E m \in ModelIds, a \in BOOLEAN : OllamaGetLogprobs(m, a)
  \/ OllamaTagsSettles
  \/ OllamaGenerateSettles

Spec == Init /\ [][Next]_vars

(***************************************************************************)
(* isAvailable and refreshModels, called on their own                      *)
(***************************************************************************)
\* The state that isAvailable and refreshModels never touch.
offProbe == <<client, call, netCalls, lastReply, result, registryVars, consumerVars,
              parse>>

\* !!apiKey && apiKey.length > 0
KeyIsSet(p) == apiKey[p]

\* OpenAIProvider.isAvailable and GeminiProvider.isAvailable: no await, so
\* the call is one step.  Reading process.env cannot throw, so the catch
\* branch is never entered.
HostedIsAvailable(i, p) ==
  /\ probes[i].pc \in {"idle", "done"}
  /\ probes' = [probes EXCEPT ![i] = Probe("done", p, FALSE, KeyIsSet(p), FALSE)]
  /\ UNCHANGED <<apiKey, _models, cache, now, lastGood, refresh>>
  /\ UNCHANGED offProbe

\* OllamaProvider.isAvailable, lines 161-166: a fresh cache answers at once,
\* otherwise the discovery call is issued.
OllamaIsAvailable(i) ==
  /\ probes[i].pc \in {"idle", "done"}
  /\ probes' = [probes EXCEPT ![i] =
                  IF CacheIsFresh(cache, now)
                  THEN Probe("done", "ollama", TRUE, cache.available, FALSE)
                  ELSE Probe("tags", "ollama", FALSE, FALSE, FALSE)]
  /\ UNCHANGED <<apiKey, _models, cache, now, lastGood, refresh>>
  /\ UNCHANGED offProbe

\* Lines 166-171: the discovery call of caller i settles.
OllamaIsAvailableSettles(i) ==
  /\ probes[i].pc = "tags"
  /\ \E o \in TagsOutcomes :
       LET models == fetchModels(o)
           available == HasModels(models)
       IN /\ _models' = models
          /\ cache' = CacheEntry(available, models, now)
          /\ lastGood' = Discovered(o, lastGood)
          /\ probes' = [probes EXCEPT ![i] =
                          Probe("done", "ollama", FALSE, available, FALSE)]
  /\ UNCHANGED <<apiKey, now, refresh>>
  /\ UNCHANGED offProbe

\* refreshModels, line 179: the discovery call is issued, whatever the cache.
RefreshModels ==
  /\ refresh.pc \in {"idle", "done"}
  /\ refresh' = [pc |-> "tags", returned |-> <<>>]
  /\ UNCHANGED <<apiKey, _models, cache, now, lastGood, probes>>
  /\ UNCHANGED offProbe

RefreshModelsSettles_KeepsCache ==
  /\ refresh.pc = "tags"
  /\ \E o \in TagsOutcomes :
       LET models == fetchModels(o)
       IN /\ _models' = models
          /\ cache' = cache
          /\ lastGood' = Discovered(o, lastGood)
          /\ refresh' = [pc |-> "done", returned |-> models]
  /\ UNCHANGED <<apiKey, now, probes>>
  /\ UNCHANGED offProbe

\* Lines 179-185: the discovery call settles; an existing cache entry gets
\* the list and a new timestamp, and keeps its available flag.
RefreshModelsSettles ==
  /\ refresh.pc = "tags"
  /\ \E o \in TagsOutcomes :
       LET models == fetchModels(o)
       IN /\ _models' = models
          /\ cache' = IF cache.present
                      THEN [cache EXCEPT !.models = models, !.timestamp = now]
                      ELSE cache
          /\ lastGood' = Discovered(o, lastGood)
          /\ refresh' = [pc |-> "done", returned |-> models]
  /\ UNCHANGED <<apiKey, now, probes>>
  /\ UNCHANGED offProbe

NextAvailability ==
  \/ Tick
  \/ \E i \in 1..MaxProbes, p \in Hosted : HostedIsAvailable(i, p)
  \/ \E i \in 1..MaxProbes : OllamaIsAvailable(i)
  \/ \E i \in 1..MaxProbes : OllamaIsAvailableSettles(i)
  \/ RefreshModels
  \/ RefreshModelsSettles

SpecAvailability == Init /\ [][NextAvailability]_vars

(***************************************************************************)
(* The try and catch blocks of the hosted adapters on one OK reply         *)
(***************************************************************************)
\* What leaves getLogprobs: the response, or what the catch block rethrows.
Outcome(parsed, caught) == IF parsed.kind = "throw" THEN Thrown(caught) ELSE parsed

\* OpenAIProvider.getLogprobs, lines 89-165, on the body of an OK reply.
OpenAIHandlesReply ==
  /\ \E b \in OpenAIBodies, m \in Range(OPENAI_MODELS) :
       LET parsed == OpenAIParse(b, m, 0)
       IN parse' = [adapter |-> "openai", body |-> b,
                    outcome |-> Outcome(parsed, OpenAICatch(ErrorOf(parsed)))]
  /\ UNCHANGED <<apiKey, client, _models, cache, now, call, netCalls, lastReply,
                 result, lastGood, probes, refresh, registryVars, consumerVars>>

\* GeminiProvider.getLogprobs, lines 457-526, on the body of an OK reply.
GeminiHandlesReply ==
  /\ \E b \in GeminiBodies, m \in Range(GEMINI_MODELS) :
       LET parsed == GeminiParse(b, m, 0)
       IN parse' = [adapter |-> "gemini", body |-> b,
                    outcome |-> Outcome(parsed, GeminiCatch(ErrorOf(parsed)))]
  /\ UNCHANGED <<apiKey, client, _models, cache, now, call, netCalls, lastReply,
                 result, lastGood, probes, refresh, registryVars, consumerVars>>

NextReply ==
  \/ OpenAIHandlesReply
  \/ GeminiHandlesReply

SpecReply == Init /\ [][NextReply]_vars

(***************************************************************************)
(* ProviderRegistry and the functions of providers/index.ts                *)
(***************************************************************************)
\* The state that the registry never touches.
offRegistry == <<apiKey, client, _models, cache, now, call, netCalls, lastReply,
                 result, lastGood, probes, refresh, consumerVars, parse>>

\* registry.register(provider), called from outside the registry.
Register(inst) ==
  /\ registry' = [register(registry, inst) EXCEPT !.registered = TRUE,
                                                  !.custom = @ \cup {inst.id}]
  /\ lastAccess' = Access("register", inst.id, <<>>, NoRaised)
  /\ UNCHANGED <<statusCall, offRegistry>>

\* registry.get(id)
Get(id) ==
  LET r == ensureInitialized(registry)
      provider == MapGet(r.providers, id)
  IN /\ registry' = r
     /\ lastAccess' = Access("get", id,
                             IF provider = Undefined THEN <<>> ELSE <<provider>>,
                             NoRaised)
     /\ UNCHANGED <<statusCall, offRegistry>>

getProvider_ReturnsUndefined(r, id) ==
  LET provider == MapGet(r.providers, id)
  IN Access("getProvider", id,
            IF provider = Undefined THEN <<>> ELSE <<provider>>, NoRaised)

\* getProvider(id): what it returns or throws, on registry r.
getProvider(r, id) ==
  LET provider == MapGet(r.providers, id)
  IN IF provider = Undefined
     THEN Access("getProvider", id, <<>>, NotFound)
     ELSE Access("getProvider", id, <<provider>>, NoRaised)

\* getProvider(id), called on its own.
GetProvider(id) ==
  LET r == ensureInitialized(registry)
  IN /\ registry' = r
     /\ lastAccess' = getProvider(r, id)
     /\ UNCHANGED <<statusCall, offRegistry>>

\* registry.getAll() / getAllProviders()
GetAll ==
  LET r == ensureInitialized(registry)
  IN /\ registry' = r
     /\ lastAccess' = Access("getAll", "none", r.providers, NoRaised)
     /\ UNCHANGED <<statusCall, offRegistry>>

StartChecks_OneAtATime(providers) ==
  [i \in 1..Len(providers) |-> IF i = 1 THEN "pending" ELSE "waiting"]

\* providers.map(async (provider) => ... await provider.isAvailable() ...):
\* each callback runs up to its await, so every isAvailable call has been
\* made when map returns.
StartChecks(providers) == [i \in 1..Len(providers) |-> "pending"]

\* getWithStatus (op "getWithStatus") or getAvailable (op "getAvailable"),
\* lines 78-83: the registry is initialised, the array of providers is taken,
\* and map calls isAvailable of every element before Promise.all is awaited.
StartStatusCall(op) ==
  LET r == ensureInitialized(registry)
  IN /\ statusCall.pc \in {"idle", "done"}
     /\ registry' = r
     /\ statusCall' = [pc |-> "pending", op |-> op, snapshot |-> r.providers,
                       checks |-> StartChecks(r.providers),
                       cached |-> IF CacheIsFresh(cache, now)
                                     /\ \E inst \in Range(r.providers) : IsOllama(inst)
                                  THEN BoolName(cache.available)
                                  ELSE "none",
                       entries |-> <<>>, available |-> <<>>]

\* getWithStatus or getAvailable, called on its own.
GetWithStatus(op) ==
  /\ StartStatusCall(op)
  /\ UNCHANGED <<lastAccess, offRegistry>>

\* How the isAvailable call of an instance can end without a backend call:
\* the hosted adapters answer by their key, Ollama from its cache; an
\* instance registered from outside may also throw, an Error or something
\* else.
CheckOutcomes(inst, cached) ==
  IF inst.n = 0 THEN {"true", "false", "Error", "other"}
  ELSE IF inst.id \in Hosted THEN {BoolName(KeyIsSet(inst.id))}
  ELSE {cached}

\* Lines 83-93: the isAvailable call of snapshot[i] settles.  The built-in
\* Ollama instance, when its cache did not answer, settles with its
\* discovery call (OllamaProvider.isAvailable, lines 166-171).
CheckSettles(i) ==
  /\ statusCall.pc = "pending"
  /\ i \in 1..Len(statusCall.snapshot)
  /\ statusCall.checks[i] = "pending"
  /\ IF IsOllama(statusCall.snapshot[i]) /\ statusCall.cached = "none"
     THEN \E o \in TagsOutcomes :
            LET models == fetchModels(o)
                available == HasModels(models)
            IN /\ _models' = models
               /\ cache' = CacheEntry(available, models, now)
               /\ lastGood' = Discovered(o, lastGood)
               /\ statusCall' = [statusCall EXCEPT !.checks[i] = BoolName(available)]
     ELSE /\ \E o \in CheckOutcomes(statusCall.snapshot[i], statusCall.cached) :
               statusCall' = [statusCall EXCEPT !.checks[i] = o]
          /\ UNCHANGED <<_models, cache, lastGood>>
  /\ UNCHANGED <<registry, lastAccess>>
  /\ UNCHANGED <<apiKey, client, now, call, netCalls, lastReply, result, probes, refresh>>
  /\ UNCHANGED <<consumerVars, parse>>

\* Lines 81-102: every element has settled, Promise.all resolves;
\* getAvailable keeps the providers of the available entries.
StatusResolves ==
  /\ statusCall.pc = "pending"
  /\ \A i \in 1..Len(statusCall.snapshot) : statusCall.checks[i] # "pending"
  /\ LET results == [i \in 1..Len(statusCall.snapshot) |->
                       StatusEntry(statusCall.snapshot[i], statusCall.checks[i])]
         kept == SelectSeq(results, LAMBDA e : e.available)
     IN statusCall' = [statusCall EXCEPT
                         !.pc = "done",
                         !.entries = results,
                         !.available = IF statusCall.op = "getAvailable"
                                       THEN [i \in 1..Len(kept) |-> kept[i].provider]
                                       ELSE <<>>]
  /\ UNCHANGED <<registry, lastAccess, offRegistry>>

(***************************************************************************)
(* App and useProviderStatus                                               *)
(***************************************************************************)
\* The state that the components never touch.
offConsumer == <<apiKey, client, _models, cache, now, call, netCalls, lastReply,
                 result, lastGood, probes, refresh, parse, refreshes>>

\* provider.models
Models(id) ==
  IF id = "openai" THEN OPENAI_MODELS
  ELSE IF id = "gemini" THEN GEMINI_MODELS
  ELSE IF id = "ollama" THEN _models
  ELSE <<>>

\* The initial effect of useProviderStatus calls refresh, which runs up to
\* its await (part_000, lines 172-176 and 185-187).
UseProviderStatusRefresh ==
  /\ app.mounted
  /\ hook.pc = "mounting"
  /\ hook' = [hook EXCEPT !.pc = "awaiting", !.loading = TRUE]
  /\ StartStatusCall("getWithStatus")
  /\ UNCHANGED <<app, abortControllerRef, requests, lastAccess, offConsumer>>

\* App's effect on [providers, providersLoading] (lines 105-116): the first
\* available provider and its first model are selected.
InitializeSelection(a, providers, loading) ==
  LET found == {i \in 1..Len(providers) : providers[i].available}
  IN IF Len(providers) > 0 /\ ~loading /\ found # {}
     THEN LET first == providers[CHOOSE i \in found : \A j \in found : i <= j].provider.id
          IN [a EXCEPT !.selectedProvider = first,
                       !.selectedModel = IF Len(Models(first)) > 0
                                         THEN Models(first)[1] ELSE @]
     ELSE a

\* refresh goes on when getProvidersWithStatus has resolved (part_000, lines
\* 176-182): providers and loading are set, and App's effect runs on the new
\* values.  Nothing is set on a component that was unmounted.
RefreshSettles ==
  /\ hook.pc = "awaiting"
  /\ statusCall.pc = "done"
  /\ IF app.mounted
     THEN /\ hook' = [pc |-> "done", providers |-> statusCall.entries, loading |-> FALSE]
          /\ app' = InitializeSelection(app, statusCall.entries, FALSE)
     ELSE /\ hook' = [hook EXCEPT !.pc = "done"]
          /\ app' = app
  /\ UNCHANGED <<abortControllerRef, requests, registryVars, offConsumer>>

\* TextInput onChange: the prompt becomes long enough, or too short.
SetPrompt(ok) ==
  /\ app.mounted
  /\ app' = [app EXCEPT !.promptOk = ok]
  /\ UNCHANGED <<hook, abortControllerRef, requests, registryVars, offConsumer>>

canSubmit_WhileLoading == app.promptOk /\ ~hook.loading

\* prompt.length >= MIN_PROMPT_LENGTH && status !== 'loading' && !providersLoading
canSubmit == app.promptOk /\ app.status # "loading" /\ ~hook.loading

\* handleSubmit (lines 128-176), up to the await of getLogprobs; retry: it is
\* called by handleRetry (lines 191-194), after setError(null).  The compute
\* button is enabled by canSubmit, the retry button is shown with an error.
HandleSubmit(retry) ==
  /\ app.mounted
  /\ Len(requests) < MaxSubmits
  /\ IF retry THEN app.error # NoRaised ELSE canSubmit
  /\ IF ~app.promptOk
     THEN /\ app' = [app EXCEPT !.error = NoRaised]
          /\ UNCHANGED <<abortControllerRef, requests, registry, lastAccess>>
     ELSE LET r == ensureInitialized(registry)
              got == getProvider(r, app.selectedProvider)
              cancelled == IF abortControllerRef # 0
                           THEN [requests EXCEPT ![abortControllerRef].aborted = TRUE]
                           ELSE requests
          IN /\ registry' = r
             /\ lastAccess' = got
             /\ abortControllerRef' = Len(requests) + 1
             /\ IF got.error # NoRaised
                THEN /\ requests' = Append(cancelled,
                                           Request(app.selectedProvider,
                                                   app.selectedModel, "notIssued"))
                     /\ app' = [app EXCEPT
                                  !.status = "error",
                                  !.error = WrappedError(NotFoundMessage,
                                                         app.selectedProvider)]
                ELSE /\ requests' = Append(cancelled,
                                           Request(app.selectedProvider,
                                                   app.selectedModel, "pending"))
                     /\ app' = [app EXCEPT !.status = "loading", !.error = NoRaised]
  /\ UNCHANGED <<hook, statusCall, offConsumer>>

\* handleSubmit after the await (lines 150-174): the k-th call settles.
RequestSettles(k) ==
  /\ k \in 1..Len(requests)
  /\ requests[k].pc = "pending"
  /\ requests' = [requests EXCEPT ![k].pc = "settled"]
  /\ \E o \in CallOutcomes(requests[k].provider) :
       app' = IF ~app.mounted THEN app
              ELSE IF o.kind = "response" THEN [app EXCEPT !.status = "success"]
              ELSE IF IsError(o.error) /\ o.error.name = "AbortError" THEN app
              ELSE [app EXCEPT !.status = "error", !.error = o.error]
  /\ UNCHANGED <<hook, abortControllerRef, registryVars, offConsumer>>

\* ModelSelector.handleProviderChange (part_002, lines 23-32) with App's
\* handleProviderChange and handleModelChange: the select is disabled while
\* the providers load and offers the available providers only.
HandleProviderChange(id) ==
  /\ app.mounted
  /\ ~hook.loading
  /\ \E i \in 1..Len(hook.providers) :
       hook.providers[i].provider.id = id /\ hook.providers[i].available
  /\ app' = [app EXCEPT !.selectedProvider = id,
                        !.error = NoRaised,
                        !.selectedModel = IF Len(Models(id)) > 0
                                          THEN Models(id)[1] ELSE @]
  /\ UNCHANGED <<hook, abortControllerRef, requests, registryVars, offConsumer>>

\* ModelSelector.handleModelChange (part_002, lines 34-36) with App's
\* handleModelChange (lines 185-188): the select is disabled while the
\* providers load or the selected provider has no models, and offers the
\* models of the selected provider.
HandleModelChange(m) ==
  /\ app.mounted
  /\ ~hook.loading
  /\ \E i \in 1..Len(hook.providers) :
       hook.providers[i].provider.id = app.selectedProvider
  /\ m \in Range(Models(app.selectedProvider))
  /\ app' = [app EXCEPT !.selectedModel = m, !.error = NoRaised]
  /\ UNCHANGED <<hook, abortControllerRef, requests, registryVars, offConsumer>>

\* handleDismissError
HandleDismissError ==
  /\ app.mounted
  /\ app.error # NoRaised
  /\ app' = [app EXCEPT !.error = NoRaised]
  /\ UNCHANGED <<hook, abortControllerRef, requests, registryVars, offConsumer>>

\* The cleanup of App's effect (lines 119-125).
Unmount ==
  /\ app.mounted
  /\ app' = [app EXCEPT !.mounted = FALSE]
  /\ requests' = IF abortControllerRef # 0
                 THEN [requests EXCEPT ![abortControllerRef].aborted = TRUE]
                 ELSE requests
  /\ UNCHANGED <<hook, abortControllerRef, registryVars, offConsumer>>

NextConsumer ==
  \/ UseProviderStatusRefresh
  \/ \E i \in 1..Cardinality(BuiltinIds) : CheckSettles(i)
  \/ StatusResolves
  \/ RefreshSettles
  \/ \E ok \in BOOLEAN : SetPrompt(ok)
  \/ \E retry \in BOOLEAN : HandleSubmit(retry)
  \/ \E k \in 1..MaxSubmits : RequestSettles(k)
  \/ \E id \in BuiltinIds : HandleProviderChange(id)
  \/ \E m \in ModelIds \cup Range(OPENAI_MODELS) : HandleModelChange(m)
  \/ HandleDismissError
  \/ Unmount
  \/ \E id \in LookupIds : GetProvider(id)

SpecConsumer == Init /\ [][NextConsumer]_vars

(***************************************************************************)
(* useProviderStatus with callers of the refresh function it returns       *)
(***************************************************************************)
\* The state that a call of refresh and its status check never touch.
offHook == <<apiKey, client, now, call, netCalls, lastReply, result, probes, refresh,
             parse, abortControllerRef, requests, lastAccess, statusCall>>

\* refresh(), called by the user of the hook after the initial effect has
\* made its own call (part_000, lines 172-176): setLoading(true),
\* setError(null), and getProvidersWithStatus runs up to its await, which
\* initialises the registry and calls isAvailable of every provider.
Refresh(k) ==
  /\ app.mounted
  /\ hook.pc # "mounting"
  /\ refreshes[k].pc = "idle"
  /\ refreshes' = [refreshes EXCEPT ![k] =
                     RefreshCall("awaiting",
                                 IF CacheIsFresh(cache, now)
                                 THEN BoolName(cache.available) ELSE "none",
                                 <<>>)]
  /\ hook' = [hook EXCEPT !.loading = TRUE]
  /\ registry' = ensureInitialized(registry)
  /\ UNCHANGED <<app, _models, cache, lastGood, offHook>>

\* The getProvidersWithStatus call of refresh k resolves (index.ts, lines
\* 78-98, taken in one step): the hosted providers answered by their key,
\* Ollama from its cache or, when the cache did not answer, with its
\* discovery call (OllamaProvider.isAvailable, lines 166-171).
RefreshStatusResolves(k) ==
  /\ refreshes[k].pc = "awaiting"
  /\ \E o \in TagsOutcomes :
       LET discovers == refreshes[k].cached = "none"
           models == fetchModels(o)
           available == HasModels(models)
           check(inst) == IF IsOllama(inst)
                          THEN (IF discovers THEN BoolName(available)
                                ELSE refreshes[k].cached)
                          ELSE BoolName(KeyIsSet(inst.id))
           status == [i \in 1..Len(registry.providers) |->
                        StatusEntry(registry.providers[i], check(registry.providers[i]))]
       IN /\ _models' = IF discovers THEN models ELSE _models
          /\ cache' = IF discovers THEN CacheEntry(available, models, now) ELSE cache
          /\ lastGood' = IF discovers THEN Discovered(o, lastGood) ELSE lastGood
          /\ refreshes' = [refreshes EXCEPT ![k].pc = "resolved", ![k].status = status]
  /\ UNCHANGED <<app, hook, registry, offHook>>

\* refresh k goes on after its await (part_000, lines 177-182):
\* setProviders(status), then setLoading(false) in the finally block, and
\* App's effect runs on the new values.
RefreshContinues(k) ==
  /\ refreshes[k].pc = "resolved"
  /\ refreshes' = [refreshes EXCEPT ![k].pc = "done"]
  /\ IF app.mounted
     THEN /\ hook' = [hook EXCEPT !.providers = refreshes[k].status, !.loading = FALSE]
          /\ app' = InitializeSelection(app, refreshes[k].status, FALSE)
     ELSE UNCHANGED <<hook, app>>
  /\ UNCHANGED <<_models, cache, lastGood, registry, offHook>>

NextHook ==
  \/ UseProviderStatusRefresh
  \/ \E i \in 1..Cardinality(BuiltinIds) : CheckSettles(i)
  \/ StatusResolves
  \/ RefreshSettles
  \/ \E k \in 1..MaxRefreshes : Refresh(k)
  \/ \E k \in 1..MaxRefreshes : RefreshStatusResolves(k)
  \/ \E k \in 1..MaxRefreshes : RefreshContinues(k)

SpecHook == Init /\ [][NextHook]_vars

\* Every status check settles (Ollama's discovery within its 5 s timeout)
\* and the event loop runs the continuations.
SpecHookFair ==
  /\ SpecHook
  /\ \A i \in 1..Cardinality(BuiltinIds) : WF_vars(CheckSettles(i))
  /\ WF_vars(StatusResolves)
  /\ WF_vars(RefreshSettles)
  /\ \A k \in 1..MaxRefreshes :
       WF_vars(RefreshStatusResolves(k)) /\ WF_vars(RefreshContinues(k))

NextRegistry ==
  \/ \E inst \in CustomProviders : Register(inst)
  \/ \E id \in LookupIds : Get(id)
  \/ \E id \in LookupIds : GetProvider(id)
  \/ GetAll
  \/ \E op \in {"getWithStatus", "getAvailable"} : GetWithStatus(op)
  \/ \E i \in 1..(Cardinality(BuiltinIds) + Cardinality(CustomProviders)) : CheckSettles(i)
  \/ StatusResolves

SpecRegistry == Init /\ [][NextRegistry]_vars

\* Every isAvailable promise settles (the hosted ones at once, Ollama's
\* discovery within its 5 s timeout) and the event loop runs the
\* continuations.
SpecRegistryFair ==
  /\ SpecRegistry
  /\ \A i \in 1..(Cardinality(BuiltinIds) + Cardinality(CustomProviders)) :
       WF_vars(CheckSettles(i))
  /\ WF_vars(StatusResolves)

(***************************************************************************)
(* Properties                                                              *)
(***************************************************************************)
Done == call.pc = "done"
Failed == Done /\ result.kind = "throw"
Succeeded == Done /\ result.kind = "response"

\* The cancellation condition: an Error named AbortError, not a ProviderError.
IsAbortCondition(e) == IsError(e) /\ e.name = "AbortError"

FailedWith(type) ==
  Failed /\ result.error.cls = "ProviderError" /\ result.error.type = type

\* C1: every getLogprobs call that does not return a response fails with a
\* ProviderError or with the cancellation (AbortError) condition, whatever the
\* backend returned or threw, and a ProviderError constructed inside the call
\* reaches the caller as the same value.
C1_TypedFailures ==
  Failed =>
    /\ result.error.cls = "ProviderError" \/ IsAbortCondition(result.error)
    /\ call.raised.cls = "ProviderError" => result.error = call.raised

\* A ProviderError thrown inside a try block (INVALID_RESPONSE) has passed
\* through the catch block.
C1_Witness ==
  /\ Failed
  /\ call.raised.cls = "ProviderError"
  /\ call.raised.type = "INVALID_RESPONSE"
  /\ lastReply.cause = "ok"

\* C2: when the signal is aborted before or during a getLogprobs call, the
\* call fails with the cancellation condition and never with a ProviderError,
\* nor does it return.
C2_CancellationSurfaces ==
  (Done /\ call.aborted) => (Failed /\ IsAbortCondition(result.error))

\* C3: a model id absent from the provider's model list when getLogprobs is
\* called makes the call fail with MODEL_NOT_FOUND, not retryable, and no
\* network call is performed during the invocation.
C3_UnknownModelNoNetwork ==
  (call.pc # "idle" /\ ~call.known) =>
    /\ netCalls = NoCalls
    /\ Done => (FailedWith("MODEL_NOT_FOUND") /\ ~result.error.retryable)

\* C4: with the credential of a hosted provider unset, construction does not
\* fail, no client handle is ever cached, and every getLogprobs call for a
\* known model has failed with API_KEY_MISSING, not retryable, without any
\* outbound request.
C4_MissingKeyIsLazy ==
  \A p \in Hosted :
    ~apiKey[p] =>
      /\ ~client[p]
      /\ (call.adapter = p /\ call.known) =>
           /\ FailedWith("API_KEY_MISSING")
           /\ ~result.error.retryable
           /\ netCalls = NoCalls

\* A getLogprobs call for a known model was made with the credential unset.
C4_Witness ==
  /\ Done /\ call.adapter = "openai" /\ call.known
  /\ ~apiKey["openai"]
  /\ FailedWith("API_KEY_MISSING")

\* The request passed the model and credential checks: the generation call
\* was reached.
PassedChecks == call.pc = "generate" \/ (Done /\ lastReply.cause # "none")

TotalCalls == netCalls.generate + netCalls.tags

\* C5: one getLogprobs invocation performs exactly one backend network call
\* when the request passes the model and credential checks and never more
\* than one in any case; no request of another kind is made.
C5_OneBackendCall ==
  /\ TotalCalls <= 1
  /\ PassedChecks => (netCalls.generate = 1 /\ netCalls.tags = 0)

\* C6: a rate-limiting reply (HTTP 429) makes getLogprobs fail with
\* RATE_LIMITED, retryable, with retryAfterMs the backend's hint in
\* milliseconds when a hint is given and 60000 when none is.
C6_RateLimited ==
  (Done /\ lastReply.cause = "http" /\ lastReply.status = 429) =>
    /\ FailedWith("RATE_LIMITED")
    /\ result.error.retryable
    /\ result.error.retryAfterMs =
         IF lastReply.hint # NoRetryAfter
         THEN lastReply.hint * 1000
         ELSE DefaultRetryAfterMs

\* Statuses with a mapping of their own: rate limiting, credential, model
\* not found.
SpecialStatuses == {429, 401, 404}

\* C7: a backend-reported server error (5xx) yields a retryable
\* ProviderError, and a client error (4xx) other than the rate-limiting,
\* credential and model-not-found cases a ProviderError that is not
\* retryable.
C7_RetryableByStatusClass ==
  (Done /\ lastReply.cause = "http" /\ lastReply.status \notin SpecialStatuses) =>
    /\ Failed
    /\ result.error.cls = "ProviderError"
    /\ result.error.retryable = (lastReply.status >= 500)

\* C8: a network-level failure of the generation call makes getLogprobs fail
\* with NETWORK_ERROR, retryable.
C8_NetworkError ==
  (Done /\ lastReply.cause = "network") =>
    (FailedWith("NETWORK_ERROR") /\ result.error.retryable)

NeverRetryable == {"API_KEY_MISSING", "MODEL_NOT_FOUND", "INVALID_RESPONSE"}
AlwaysRetryable == {"RATE_LIMITED", "SERVICE_UNAVAILABLE", "NETWORK_ERROR"}

\* The backend signalled a server-side condition.
ServerSide == lastReply.cause = "http" /\ lastReply.status >= 500

\* C9: the retryable flag of every ProviderError is determined by its kind:
\* never for API_KEY_MISSING, MODEL_NOT_FOUND and INVALID_RESPONSE, always
\* for RATE_LIMITED, SERVICE_UNAVAILABLE and NETWORK_ERROR, and for UNKNOWN
\* only when the backend signalled a server-side condition.
C9_RetryableByKind ==
  (Failed /\ result.error.cls = "ProviderError") =>
    /\ result.error.type \in NeverRetryable => ~result.error.retryable
    /\ result.error.type \in AlwaysRetryable => result.error.retryable
    /\ (result.error.type = "UNKNOWN" /\ result.error.retryable) => ServerSide

IsSortedByProbability(tokens) ==
  \A i \in 1..(Len(tokens) - 1) : tokens[i].probability >= tokens[i + 1].probability

\* C10: whatever the backend replied, a getLogprobs call that returns a
\* response returns a tokens list that is non-empty and ordered
\* non-increasing by probability.
C10_TokensNonEmptySorted ==
  Succeeded => (Len(result.tokens) > 0 /\ IsSortedByProbability(result.tokens))

\* C11: for Gemini and Ollama, a reply that carries zero alternative
\* log-probabilities (the structure absent, or present and empty) makes
\* getLogprobs return exactly one token, with probability 1.0 and logprob
\* 0.0, whose text is the generated output.
C11_ZeroAlternatives ==
  (Done /\ call.adapter \in {"gemini", "ollama"}
        /\ lastReply.cause = "ok" /\ lastReply.noAlternatives)
    => /\ Succeeded
       /\ Len(result.tokens) = 1
       /\ result.tokens[1].probability = ProbScale
       /\ result.tokens[1].logprob = 0
       /\ result.tokens[1].token = lastReply.output

\* Caller i of isAvailable begins a call to Ollama in this step.
OllamaProbeStarts(i) ==
  /\ probes[i].pc \in {"idle", "done"}
  /\ probes'[i] # probes[i]
  /\ probes'[i].provider = "ollama"

\* C12: an Ollama isAvailable call that starts less than 30000 ms after the
\* cache entry's timestamp returns the cached value at once, without a
\* discovery call and without touching the cache (so two such calls return
\* the same value); a call that starts once 30000 ms or more have elapsed
\* (or with no cache entry) issues a discovery call, and when that settles
\* the cache holds what the call returned, stamped with the current time.
C12_CacheWithinTTL ==
  [][\A i \in 1..MaxProbes :
       /\ OllamaProbeStarts(i) =>
            IF cache.present /\ now - cache.timestamp < 30000
            THEN /\ probes'[i].pc = "done"
                 /\ probes'[i].fromCache
                 /\ probes'[i].value = cache.available
                 /\ cache' = cache
            ELSE probes'[i].pc = "tags"
       /\ (probes[i].pc = "tags" /\ probes'[i].pc = "done") =>
            /\ ~probes'[i].fromCache
            /\ cache'.present
            /\ cache'.timestamp = now
            /\ cache'.available = probes'[i].value]_vars

\* One caller was answered from the cache, and another ran a fresh discovery
\* 30000 ms or more after the first entry was written.
C12_Witness ==
  /\ probes[1].pc = "done" /\ probes[1].provider = "ollama" /\ probes[1].fromCache
  /\ probes[2].pc = "done" /\ probes[2].provider = "ollama" /\ ~probes[2].fromCache
  /\ cache.timestamp >= 30000

\* C13: Ollama's models list always equals the model list of the last
\* successful discovery: it is empty before the first one, and a discovery
\* that fails afterwards (service down, non-OK reply, timeout) leaves it
\* unchanged.
C13_ModelsAreLastDiscovered == _models = lastGood

\* Every request the finished Ollama invocation sent failed to connect, and
\* it sent none that the service answered: what an invocation sees when no
\* Ollama service can be reached.
NoReachableService ==
  /\ Done /\ call.adapter = "ollama"
  /\ call.discovery \in {"cached", "throws"}
  /\ netCalls.generate > 0 => lastReply.cause = "network"

OllamaUnavailable ==
  /\ ~call.available
  /\ FailedWith("SERVICE_UNAVAILABLE")
  /\ result.error.retryable
  /\ netCalls.generate = 0

\* C14 as stated: with no reachable Ollama service, isAvailable returns false
\* and getLogprobs fails with SERVICE_UNAVAILABLE, retryable, without sending
\* a generation request, whatever model is requested.
C14_NoServiceUnavailable == NoReachableService => OllamaUnavailable

\* C14 as amended: the same, unless isAvailable is answered by a cache entry
\* less than 30000 ms old that recorded the service as available.
C14_NoServiceUnavailableUnlessCached ==
  (NoReachableService /\ ~(call.discovery = "cached" /\ call.available))
    => OllamaUnavailable

\* A discovery call found no service, for a model the adapter had listed.
C14_Witness ==
  /\ NoReachableService /\ call.discovery = "throws" /\ call.known
  /\ OllamaUnavailable

\* C15: no provider's isAvailable raises: whatever fails inside, the call
\* returns, and returns false; an Ollama check that is not answered from the
\* cache returns true exactly when its discovery returned at least one model
\* (a failed discovery returns none).
C15_IsAvailableNeverRaises ==
  [][\A i \in 1..MaxProbes :
       /\ probes'[i].pc = "done" => ~probes'[i].raised
       /\ (probes[i].pc = "tags" /\ probes'[i].pc = "done") =>
            (probes'[i].value <=> Len(_models') >= 1)]_vars

\* Two Ollama checks ran their own discovery, one found models and one found
\* none.
C15_Witness ==
  /\ \A i \in 1..2 : /\ probes[i].pc = "done" /\ probes[i].provider = "ollama"
                      /\ ~probes[i].fromCache
  /\ probes[1].value /\ ~probes[2].value

\* The three instances the registry constructs on its first access.
Builtins == <<Instance("openai", 1), Instance("gemini", 2), Instance("ollama", 3)>>

\* C16: after any sequence of get, getAll, getWithStatus and getAvailable
\* calls (register never called), the registry holds exactly the providers
\* openai, gemini and ollama, constructed once, on the first access: later
\* accesses construct nothing and return those same instances.
C16_ThreeProvidersOnce ==
  /\ registry.constructed = (IF registry.initialized THEN 3 ELSE 0)
  /\ ~registry.registered =>
       /\ registry.providers = (IF registry.initialized THEN Builtins ELSE <<>>)
       /\ lastAccess.op # "none" => registry.initialized
       /\ lastAccess.op = "getAll" => lastAccess.value = Builtins
       /\ (lastAccess.op \in {"get", "getProvider"} /\ lastAccess.id \in BuiltinIds) =>
            /\ Len(lastAccess.value) = 1
            /\ lastAccess.value[1] \in Range(Builtins)
            /\ lastAccess.value[1].id = lastAccess.id
       /\ statusCall.pc # "idle" =>
            /\ registry.initialized
            /\ statusCall.snapshot = Builtins

\* getWithStatus has resolved and getAll was called after other accesses.
C16_Witness ==
  /\ ~registry.registered
  /\ statusCall.pc = "done" /\ statusCall.op = "getAvailable"
  /\ lastAccess.op = "getAll"

StatusCallStarts == statusCall.pc # "pending" /\ statusCall'.pc = "pending"
StatusCallResolves == statusCall.pc = "pending" /\ statusCall'.pc = "done"

\* C17: getWithStatus starts the availability check of every registered
\* provider before any of them has finished, and resolves, always, with one
\* status entry per provider in registry order; a provider whose isAvailable
\* raises gets {available: false, error: <message>} and the other entries are
\* returned all the same.
C17_StatusFanOut ==
  /\ [][/\ StatusCallStarts =>
            /\ statusCall'.snapshot = registry'.providers
            /\ Len(statusCall'.checks) = Len(statusCall'.snapshot)
            /\ \A i \in 1..Len(statusCall'.checks) : statusCall'.checks[i] = "pending"
        /\ StatusCallResolves =>
            /\ Len(statusCall'.entries) = Len(statusCall.snapshot)
            /\ \A i \in 1..Len(statusCall.snapshot) :
                 LET e == statusCall'.entries[i]
                     raised == statusCall.checks[i] \in {"Error", "other"}
                 IN /\ e.provider = statusCall.snapshot[i]
                    /\ e.available <=> statusCall.checks[i] = "true"
                    /\ raised => ~e.available /\ e.error # "none"
                    /\ ~raised => e.error = "none"]_vars
  /\ (statusCall.pc = "pending") ~> (statusCall.pc = "done")

\* getWithStatus resolved with four entries, one of them for a provider whose
\* isAvailable raised, next to an available one.
C17_Witness ==
  /\ statusCall.pc = "done" /\ Len(statusCall.entries) = 4
  /\ \E i, j \in 1..4 : /\ statusCall.checks[i] = "Error"
                         /\ statusCall.entries[j].available

InFlight == {k \in 1..Len(requests) : requests[k].pc = "pending"}

\* C19: App has at most one getLogprobs call in flight at any time, and
\* every handleSubmit that issues a call has first aborted the controller of
\* the previous request, if there was one, and made the call with a new
\* controller.
C19_SingleRequestInFlight ==
  /\ [](Cardinality(InFlight) <= 1)
  /\ [][(Len(requests') = Len(requests) + 1
           /\ requests'[Len(requests')].pc = "pending") =>
          /\ abortControllerRef # 0 => requests'[abortControllerRef].aborted
          /\ abortControllerRef' = Len(requests')
          /\ abortControllerRef' # abortControllerRef
          /\ ~requests'[abortControllerRef'].aborted]_vars

\* A second request is in flight; the controller of the first was aborted.
C19_Witness ==
  /\ Len(requests) = 2
  /\ requests[1].pc = "settled" /\ requests[1].aborted
  /\ requests[2].pc = "pending" /\ ~requests[2].aborted
  /\ abortControllerRef = 2

\* C20: every adapter hands the request's signal to its generation call, so
\* an invocation whose signal was aborted gets no reply from the backend:
\* its generation call, if one was made, ended by the abort, and none was
\* carried out after the abort.
C20_AbortEndsGeneration ==
  (Done /\ call.aborted) => lastReply.cause \in {"none", "abort"}

\* The fields of a token agree: logprob <= 0, 0 < probability <= 1, and each
\* is the exponential, respectively the logarithm, of the other.
TokenIsConsistent(t) ==
  /\ t.logprob <= 0
  /\ t.probability > 0 /\ t.probability <= ProbScale
  /\ t.logprob >= 0 - MaxK
  /\ t.probability = Pow2(MaxK + t.logprob)
  /\ t.logprob = Log2(t.probability) - MaxK

\* C21: every token of every successful response has consistent fields:
\* logprob <= 0, probability in (0, 1], probability = exp(logprob) where the
\* backend gave the log-probability and logprob = ln(probability) where it
\* gave the probability.
C21_TokensConsistent ==
  Succeeded => \A i \in 1..Len(result.tokens) : TokenIsConsistent(result.tokens[i])

\* The alternatives the Gemini adapter is to use from a reply: the top
\* candidates of the first position when there are any, else the chosen
\* candidates, else none.
GeminiAlternatives(b) ==
  IF b.hasTop /\ Len(b.top) > 0 THEN b.top
  ELSE IF b.hasChosen /\ Len(b.chosen) > 0 THEN b.chosen
  ELSE <<>>

\* C22: the Gemini adapter takes its alternatives from the top-candidates
\* nesting when that is non-empty, from the chosen-candidates nesting when
\* the first is absent or empty, and returns the synthetic single token only
\* when both are absent or empty.
C22_GeminiNestingFallback ==
  parse.adapter = "gemini" =>
    LET expected == GeminiAlternatives(parse.body)
        tokens == parse.outcome.tokens
    IN /\ parse.outcome.kind = "response"
       /\ IF expected = <<>>
          THEN /\ Len(tokens) = 1
               /\ tokens[1].probability = ProbScale /\ tokens[1].logprob = 0
          ELSE /\ Len(tokens) = Len(expected)
               /\ {[token |-> tokens[i].token, logprob |-> tokens[i].logprob] :
                     i \in 1..Len(tokens)}
                  = {[token |-> expected[i].token, logprob |-> expected[i].logProbability] :
                       i \in 1..Len(expected)}

\* C23: for Ollama, a 404 reply to the generation request makes getLogprobs
\* fail with MODEL_NOT_FOUND, not retryable, with a message that tells the
\* user to pull the model; any other non-OK reply gives UNKNOWN, never
\* MODEL_NOT_FOUND.
C23_Ollama404 ==
  (Done /\ call.adapter = "ollama" /\ lastReply.cause = "http") =>
    IF lastReply.status = 404
    THEN /\ FailedWith("MODEL_NOT_FOUND")
         /\ ~result.error.retryable
         /\ result.error.message = "Model not found. Run 'ollama pull'"
    ELSE FailedWith("UNKNOWN")

\* The generation request was answered 404.
C23_Witness ==
  /\ Done /\ call.adapter = "ollama"
  /\ lastReply.cause = "http" /\ lastReply.status = 404
  /\ FailedWith("MODEL_NOT_FOUND")

\* C24: for OpenAI, an OK reply without the top-alternatives list of the
\* first generated token makes getLogprobs fail with INVALID_RESPONSE, not
\* retryable, and the catch block passes that error on as it is.
C24_OpenAIInvalidResponse ==
  (parse.adapter = "openai" /\ ~parse.body.hasTopLogprobs) =>
    /\ parse.outcome.kind = "throw"
    /\ parse.outcome.error.cls = "ProviderError"
    /\ parse.outcome.error.type = "INVALID_RESPONSE"
    /\ ~parse.outcome.error.retryable

\* A reply without the list was handled and ended in a thrown error.
C24_Witness ==
  /\ parse.adapter = "openai" /\ ~parse.body.hasTopLogprobs
  /\ parse.outcome.kind = "throw"

\* C25: for Ollama, after any sequence of isAvailable and refreshModels
\* calls, a cache entry that exists records available = TRUE exactly when
\* its models list is not empty.
C25_CacheAvailableIffModels ==
  cache.present => (cache.available <=> Len(cache.models) > 0)

\* C26: for Ollama, under any interleaving of concurrent isAvailable and
\* refreshModels calls (several callers that found the cache stale and each
\* ran a discovery included), there is one cache entry at most, a cache
\* entry that exists holds the same models list as the provider's models
\* property, and its timestamp never decreases.  The cache is the single
\* field `cache`, so "one entry at most" is that the entry, once written,
\* is overwritten and never dropped.
C26_CacheUnderConcurrency ==
  /\ [](cache.present => cache.models = _models)
  /\ [][cache.present =>
          /\ cache'.present
          /\ cache'.timestamp >= cache.timestamp]_vars

\* One isAvailable caller has overwritten the cache 30000 ms or more after
\* the start while another isAvailable caller and a refreshModels call are
\* still waiting for their own discovery calls.
C26_Witness ==
  /\ cache.present /\ cache.timestamp >= 30000
  /\ probes[1].pc = "done" /\ probes[1].provider = "ollama" /\ ~probes[1].fromCache
  /\ probes[2].pc = "tags"
  /\ refresh.pc = "tags"

\* C27: once register(p) has been called, get(p.id) returns p after any
\* number of get, getAll and getWithStatus calls, whether register came
\* before or after the first access of the registry and whether or not p.id
\* is the id of a built-in provider.
C27_RegisteredIsReturned ==
  (lastAccess.op = "get" /\ lastAccess.id \in registry.custom) =>
    lastAccess.value = <<Instance(lastAccess.id, 0)>>

\* handleSubmit issues a getLogprobs call in this step.
GetLogprobsIssued ==
  /\ Len(requests') = Len(requests) + 1
  /\ requests'[Len(requests')].pc = "pending"

\* C28: whenever handleSubmit issues a getLogprobs call, the selected model
\* id is in the model list of the selected provider, in every state that
\* the loading of the provider status, provider changes and model changes
\* lead to.
C28_SelectedModelIsListed ==
  [][GetLogprobsIssued =>
       requests'[Len(requests')].model
         \in Range(Models(requests'[Len(requests')].provider))]_vars

\* The status check that a refresh call started has not settled yet.
CheckInProgress ==
  \/ hook.pc = "awaiting" /\ statusCall.pc = "pending"
  \/ \E k \in 1..MaxRefreshes : refreshes[k].pc = "awaiting"

\* C29: in useProviderStatus, loading is true whenever a status check that
\* refresh started is still in progress, also when several refresh calls
\* overlap; and every refresh sets loading to false once its own check has
\* settled.  The first half is the state predicate below; the second half
\* is RefreshClearsLoading.
C29_LoadingWhileChecking == CheckInProgress => hook.loading

\* A refresh call whose status check has settled goes on to set loading to
\* false.
RefreshClearsLoading ==
  /\ [][\A k \in 1..MaxRefreshes :
          (refreshes[k].pc = "resolved" /\ refreshes'[k].pc = "done") => ~hook'.loading]_vars
  /\ \A k \in 1..MaxRefreshes : refreshes[k].pc = "resolved" ~> refreshes[k].pc = "done"
  /\ (hook.pc = "awaiting" /\ statusCall.pc = "done") ~> hook.pc = "done"
====
